---- MODULE Spec2Model ----
(***************************************************************************)
(* A model of xbmc/windowing/gbm/drm/DRMUtils.cpp (class CDRMUtils): the   *)
(* DRM session (OpenDrm, InitDrm and the topology resolver it calls) and   *)
(* the framebuffer binder (DrmFbGetFromBo, DrmFbDestroyCallback).          *)
(*                                                                         *)
(* Pointers are modelled as indices: a pointer into one of the session's   *)
(* collections is the 1-based index of the element, 0 is nullptr.  A       *)
(* drm_fb descriptor pointer is a heap address in Addrs, 0 is nullptr.     *)
(* Reads the C++ standard leaves undefined (a freed descriptor, the        *)
(* element behind end()) yield any of the values listed with the read.     *)
(***************************************************************************)
EXTENDS Integers, Sequences, FiniteSets, TLC

(* ------------------------------ bounds -------------------------------- *)
\* buffer objects (gbm_bo) the binder is called on
MaxBuffers == 2
\* framebuffer identities the driver hands out before it rejects requests
MaxFbIds == 2

\* display devices drmGetDevices2 reports
MaxDevices == 2
\* connectors, encoders, CRTCs and planes of a device
MaxConnectors == 1
MaxEncoders == 1
MaxCrtcs == 2
\* modes a connector lists
MaxModes == 3
MaxPlanes == 2

(* ------------------------- program constants -------------------------- *)
\* (uint32_t)0 / nullptr
Null == 0
\* what open() returns when it fails; a session that holds no descriptor
NoFd == -1
\* a non-null pointer value that points to no object of the program: what
\* the slot behind the last element of a vector may hold
Garbage == -1
\* the node types of a drmDevice (primary, control, render)
DRM_NODE_MAX == 3

NV12 == "NV12"
ARGB8888 == "ARGB8888"
XRGB8888 == "XRGB8888"
\* the formats a GUI plane is switched between (CDRMPlane::SetFormat)
GuiFormats == {ARGB8888, XRGB8888}

VARIABLES
  \* ---- the system the session runs on ----
  devices,      \* what drmGetDevices2 reports, and each device's objects
  fdTable,      \* descriptor -> what it is open on
  \* ---- the session (members of CDRMUtils) ----
  m_fd, m_renderFd,
  m_connectors, m_encoders, m_crtcs, m_planes,
  m_connector, m_encoder, m_crtc, m_orig_crtc, m_video_plane, m_gui_plane,
  m_mode, m_width, m_height,
  \* ---- the process and the last handler that ran ----
  crashed,      \* the process has been killed by a fault
  lastOp,       \* name of the last handler that ran
  lastArg,      \* the argument it was called with (0 when it takes none)
  ret,          \* its bool result: "true", "false", "none"
  step,         \* where InitDrm returned ("done" at its end)
  reqs,         \* the driver requests it issued, in order
  retRes,       \* the RESOLUTION_INFO it returned ("none" when it returns none)
  \* ---- the framebuffer binder: buffers, descriptors, driver ----
  boAlive,      \* bo -> the gbm_bo has not been destroyed
  userData,     \* bo -> gbm_bo_get_user_data(bo): a descriptor address or 0
  destroyCb,    \* bo -> a destroy callback is attached
  heap,         \* address -> the drm_fb stored there
  registered,   \* framebuffer ids the driver currently holds
  fbOwner,      \* id -> the bo a registered id was registered for
  nextFbId,     \* the next id the driver hands out
  retFb         \* the drm_fb* the handler returned (0 when it returns none)

sessionVars == << m_fd, m_renderFd, m_connectors, m_encoders, m_crtcs, m_planes,
                  m_connector, m_encoder, m_crtc, m_orig_crtc, m_video_plane,
                  m_gui_plane, m_mode, m_width, m_height >>
fbVars == << boAlive, userData, destroyCb, heap, registered, fbOwner,
             nextFbId, retFb >>
vars == << devices, fdTable, sessionVars, fbVars, crashed, lastOp, lastArg, ret, step,
           reqs, retRes >>

(* ====================================================================== *)
(*                    The objects a device exposes                        *)
(* ====================================================================== *)
\* file descriptors open() hands out (0-2 are the standard streams)
Fds == 3..8
Closed == [open |-> FALSE, dev |-> 0, kind |-> "none"]

\* a request to the kernel, as the driver sees it
Req(op, arg, ok) == [op |-> op, arg |-> arg, ok |-> ok]

\* bit i of a possible-CRTC bitmask: mask & (1 << i)
Bit(mask, i) == (mask \div (2 ^ i)) % 2 = 1

\* std::find_if over a sequence of n elements, hit being the positions whose
\* element satisfies the predicate: the first of them; n + 1 is end()
FindIf(hit, n) ==
  IF hit = {} THEN n + 1 ELSE CHOOSE k \in hit : \A j \in hit : k <= j

\* driver-assigned identities, by position in the resource listing
ConnectorId(k) == 20 + k
PlaneId(k) == 30 + k
EncoderId(k) == 40 + k
CrtcId(k) == 50 + k
\* the framebuffer a CRTC scans out when the session starts
FbOfCrtc(k) == 60 + k

(* ====================================================================== *)
(*                              OpenDrm                                   *)
(* ====================================================================== *)
\* faulty variant of close(fd): the descriptor stays open
CloseFails(st, fd) == [st EXCEPT !.reqs = Append(@, Req("close", fd, FALSE))]

\* close(fd)
Close(st, fd) ==
  [st EXCEPT !.fdTable = [f \in Fds |-> IF f = fd THEN Closed ELSE @[f]],
             !.reqs = Append(@, Req("close", fd, fd \in Fds /\ st.fdTable[fd].open))]

\* the descriptor open() returns: the lowest one that is free
LowestFree(t) == CHOOSE f \in Fds : ~t[f].open /\ \A g \in Fds : ~t[g].open => f <= g

\* the name an open() request is logged under: the device node or the render node
OpenOp(kind) == IF kind = "render" THEN "open_render" ELSE "open"

\* open(path, O_RDWR | O_CLOEXEC) on a node of device d; ok is whether the
\* system lets it succeed
Open(st, d, kind, ok) ==
  IF ok
  THEN LET f == LowestFree(st.fdTable)
       IN [fd |-> f,
           st |-> [st EXCEPT !.fdTable[f] = [open |-> TRUE, dev |-> d, kind |-> kind],
                             !.reqs = Append(@, Req(OpenOp(kind), d, TRUE))]]
  ELSE [fd |-> NoFd, st |-> [st EXCEPT !.reqs = Append(@, Req(OpenOp(kind), d, FALSE))]]

\* the (device, node) pairs the two loops of lines 346-350 visit, in order
RECURSIVE Candidates(_, _, _)
Candidates(devs, d, i) ==
  IF d > Len(devs) THEN << >>
  ELSE IF i >= DRM_NODE_MAX THEN Candidates(devs, d + 1, 0)
  ELSE (IF devs[d].nodes[i + 1] # "absent" THEN << <<d, i>> >> ELSE << >>)
       \o Candidates(devs, d, i + 1)

\* connector->GetEncoderId() > 0 && connector->IsConnected()
Usable(connector) == connector.encoder_id > 0 /\ connector.connected

\* the loop of lines 366-371: it stops at the first usable connector and
\* leaves nothing behind; its result is not read
ConnectorScan(connectors) ==
  FindIf({k \in 1..Len(connectors) : Usable(connectors[k])}, Len(connectors))

\* the body of the loops of lines 346-390 from candidate k on
RECURSIVE OpenLoop(_, _, _, _, _)
OpenLoop(st, devs, cands, k, needConnector) ==
  IF k > Len(cands) THEN [ret |-> "false", st |-> st]
  ELSE
    LET d      == cands[k][1]
        dev    == devs[d]
        closed == Close(st, st.m_fd)
        o      == Open(closed, d, "card", dev.nodes[cands[k][2] + 1] = "ok")
        opened == [o.st EXCEPT !.m_fd = o.fd]
        r      == Open(opened, d, "render", dev.render = "ok")
        done   == IF dev.render = "none" THEN opened
                  ELSE [r.st EXCEPT !.m_renderFd = r.fd]
    IN IF o.fd < 0 THEN OpenLoop(opened, devs, cands, k + 1, needConnector)
       ELSE IF needConnector /\ ~dev.res
            THEN OpenLoop(opened, devs, cands, k + 1, needConnector)
       ELSE [ret |-> "true", st |-> done]

\* OpenDrm(needConnector), lines 324-394; getOk is whether the second
\* drmGetDevices2 call succeeds
OpenDrmResult(needConnector, getOk) ==
  LET st == [fdTable |-> fdTable, reqs |-> << >>, m_fd |-> m_fd, m_renderFd |-> m_renderFd]
  IN IF Len(devices) <= 0 \/ ~getOk THEN [ret |-> "false", st |-> st]
     ELSE OpenLoop(st, devices, Candidates(devices, 1, 0), 1, needConnector)

OpenDrm(needConnector) ==
  /\ ~crashed
  /\ lastOp = "none"
  /\ \E getOk \in BOOLEAN :
       LET r == OpenDrmResult(needConnector, getOk)
       IN /\ ret' = r.ret
          /\ fdTable' = r.st.fdTable
          /\ reqs' = r.st.reqs
          /\ m_fd' = r.st.m_fd
          /\ m_renderFd' = r.st.m_renderFd
  /\ lastOp' = "OpenDrm"
  /\ lastArg' = needConnector
  /\ UNCHANGED << devices, m_connectors, m_encoders, m_crtcs, m_planes,
                  m_connector, m_encoder, m_crtc, m_orig_crtc, m_video_plane,
                  m_gui_plane, m_mode, m_width, m_height, fbVars, crashed, step,
                  retRes >>

(* ====================================================================== *)
(*                 The topology resolver and mode selector                *)
(* ====================================================================== *)
\* an iterator of find_if as the pointer the caller stores: 0 for end()
AtOrNull(seq, it) == IF it <= Len(seq) THEN it ELSE Null

\* FindConnector, lines 507-517: the connector selected, 0 when none
FindConnector(connectors) ==
  AtOrNull(connectors,
           FindIf({k \in 1..Len(connectors) : Usable(connectors[k])}, Len(connectors)))

\* FindEncoder, lines 519-529
FindEncoder(encoders, connector) ==
  AtOrNull(encoders,
           FindIf({k \in 1..Len(encoders) : encoders[k].id = connector.encoder_id},
                  Len(encoders)))

\* FindCrtc, lines 531-546: the original CRTC, 0 when none
FindCrtc(crtcs, encoder) ==
  LET hit == {i \in 1..Len(crtcs) : /\ Bit(encoder.possible_crtcs, i - 1)
                                    /\ crtcs[i].id = encoder.crtc_id}
  IN IF hit = {} THEN Null ELSE CHOOSE i \in hit : \A j \in hit : i <= j

\* plane->GetPossibleCrtcs() & (1 << i), lines 186 and 200
Attachable(plane, i) == Bit(plane.possible_crtcs, i)

\* the lambda of lines 185-191
IsVideoPlane(plane, i) == Attachable(plane, i) /\ NV12 \in plane.formats

\* the lambda of lines 199-207
IsGuiPlane(plane, i, videoPlaneId) ==
  /\ Attachable(plane, i)
  /\ plane.id # videoPlaneId
  /\ (videoPlaneId = 0 \/ ARGB8888 \in plane.formats)
  /\ XRGB8888 \in plane.formats

\* it->get() of lines 209-222: the element, and for end() what the slot
\* behind the last element holds (endSlot: 0 or a garbage pointer)
Get(planes, it, endSlot) == IF it <= Len(planes) THEN it ELSE endSlot

\* the loop of FindPlanes, lines 179-225, from CRTC i (1-based) on; sel is
\* (m_crtc, m_video_plane, m_gui_plane)
RECURSIVE FindPlanesLoop(_, _, _, _, _, _)
FindPlanesLoop(i, crtcs, planes, encoder, endSlot, sel) ==
  IF i > Len(crtcs) THEN sel
  ELSE
    LET videoPlane   == FindIf({k \in 1..Len(planes) : IsVideoPlane(planes[k], i - 1)},
                               Len(planes))
        videoPlaneId == IF videoPlane <= Len(planes) THEN planes[videoPlane].id ELSE 0
        guiPlane     == FindIf({k \in 1..Len(planes) :
                                  IsGuiPlane(planes[k], i - 1, videoPlaneId)},
                               Len(planes))
        v            == Get(planes, videoPlane, endSlot)
        g            == Get(planes, guiPlane, endSlot)
    IN IF v # Null /\ g # Null
       THEN [crtc |-> i, video |-> v, gui |-> g]
       ELSE IF g # Null /\ sel.crtc = Null /\ encoder.crtc_id = crtcs[i].id
            THEN FindPlanesLoop(i + 1, crtcs, planes, encoder, endSlot,
                                [sel EXCEPT !.crtc = i, !.gui = g])
            ELSE FindPlanesLoop(i + 1, crtcs, planes, encoder, endSlot, sel)

\* lines 227-235: the two log lines read m_video_plane (when it is not
\* null) and m_gui_plane; faults is whether reading through a garbage
\* pointer faults.  The result is the selection, whether the process
\* faulted, and the function's return value.
LogPlanes(sel, faults) ==
  IF \/ (sel.video = Garbage /\ faults)
     \/ sel.gui = Null
     \/ (sel.gui = Garbage /\ faults)
  THEN [sel |-> sel, crashed |-> TRUE, ret |-> "none"]
  ELSE [sel |-> sel, crashed |-> FALSE, ret |-> "true"]

\* FindPlanes, lines 177-236.  endSlot is what the slot behind the last
\* plane holds.
FindPlanes(crtcs, planes, encoder, sel, endSlot, faults) ==
  IF Len(crtcs) > 0 /\ Len(planes) = 0
  THEN \* begin() = end() = nullptr: the first ->get() reads address 0
       [sel |-> sel, crashed |-> TRUE, ret |-> "none"]
  ELSE LogPlanes(FindPlanesLoop(1, crtcs, planes, encoder, endSlot, sel), faults)

\* faulty variant of the loop of FindPreferredMode: a mode of equal area
\* replaces the one held
RECURSIVE PreferredLoopLastWins(_, _, _, _)
PreferredLoopLastWins(i, modes, area, mode) ==
  IF i > Len(modes) THEN mode
  ELSE IF modes[i].preferred THEN i
  ELSE LET current_area == modes[i].hdisplay * modes[i].vdisplay
       IN IF current_area >= area
          THEN PreferredLoopLastWins(i + 1, modes, current_area, i)
          ELSE PreferredLoopLastWins(i + 1, modes, area, mode)

\* the loop of FindPreferredMode, lines 147-166, from mode i (1-based) on
RECURSIVE PreferredLoop(_, _, _, _)
PreferredLoop(i, modes, area, mode) ==
  IF i > Len(modes) THEN mode
  ELSE IF modes[i].preferred THEN i
  ELSE LET current_area == modes[i].hdisplay * modes[i].vdisplay
       IN IF current_area > area
          THEN PreferredLoop(i + 1, modes, current_area, i)
          ELSE PreferredLoop(i + 1, modes, area, mode)

\* FindPreferredMode, lines 145-175: the new m_mode; it fails when that is 0
FindPreferredMode(modes, mode) == PreferredLoop(1, modes, 0, mode)

(* ====================================================================== *)
(*                              InitDrm                                   *)
(* ====================================================================== *)
\* the answers of the driver to the requests of one InitDrm call, and what
\* the undefined reads of FindPlanes yield; an answer that no run asks for
\* (it follows a refusal that ends the call) is left at its default
InitInputs ==
  { io \in [capPlanes : BOOLEAN, capStereo : BOOLEAN, capAspect : BOOLEAN,
            planeRes : BOOLEAN, master : BOOLEAN, getMagic : BOOLEAN,
            authMagic : BOOLEAN, endSlot : {Null, Garbage}, faults : BOOLEAN] :
      /\ ~io.capPlanes => io.capStereo
      /\ ~(io.capPlanes /\ io.capStereo) => (io.capAspect /\ io.planeRes)
      /\ ~(io.capPlanes /\ io.capStereo /\ io.planeRes)
            => (io.master /\ io.endSlot = Null)
      /\ io.master => (io.getMagic /\ io.authMagic)
      /\ ~io.getMagic => io.authMagic
      /\ io.endSlot = Null => ~io.faults }

\* CDRMPlane as constructed at line 445 and completed by lines 447-457:
\* the fallback gives the linear modifier to the 32-bit RGB formats
PlaneWrapper(p) ==
  [id |-> p.id, possible_crtcs |-> p.possible_crtcs, formats |-> p.formats,
   format |-> XRGB8888,
   linear |-> IF p.in_formats THEN {} ELSE p.formats \cap {ARGB8888, XRGB8888}]

\* the members of the session InitDrm reads and writes
Session ==
  [connectors |-> m_connectors, encoders |-> m_encoders, crtcs |-> m_crtcs,
   planes |-> m_planes, connector |-> m_connector, encoder |-> m_encoder,
   crtc |-> m_crtc, orig_crtc |-> m_orig_crtc, video_plane |-> m_video_plane,
   gui_plane |-> m_gui_plane, mode |-> m_mode,
   reqs |-> << >>, ret |-> "none", step |-> "none", crashed |-> FALSE]

\* return false at the step named
Fail(s, at) == [s EXCEPT !.ret = "false", !.step = at]
\* return true at line 504
Succeed(s) == [s EXCEPT !.ret = "true", !.step = "done"]
\* a request on m_fd and its answer
Ask(s, op, ok) == [s EXCEPT !.reqs = Append(@, Req(op, 0, ok))]

\* faulty variant of the magic handshake: the answer of drmAuthMagic is not read
AuthMagicAnswerIgnored(s, io) ==
  IF ~io.getMagic THEN Fail(s, "GetMagic")
  ELSE Succeed(Ask(s, "AuthMagic", io.authMagic))

\* lines 487-501: the magic handshake
AuthMagic(s, io) ==
  IF ~io.getMagic THEN Fail(s, "GetMagic")
  ELSE IF ~io.authMagic THEN Fail(Ask(s, "AuthMagic", FALSE), "AuthMagic")
  ELSE Succeed(Ask(s, "AuthMagic", TRUE))

\* lines 476-504: drmSetMaster, and the handshake when it is refused
Authorize(s, io) ==
  IF io.master THEN Succeed(Ask(s, "SetMaster", TRUE))
  ELSE AuthMagic(Ask(Ask(s, "SetMaster", FALSE), "GetMagic", io.getMagic), io)

\* lines 473-474: FindPreferredMode has set m_mode to m
AfterFindPreferredMode(s, io, m) ==
  IF m = Null THEN Fail(s, "FindPreferredMode")
  ELSE Authorize([s EXCEPT !.mode = m], io)

\* what FindPlanes has written to the session
WithPlanes(s, sel) ==
  [s EXCEPT !.crtc = sel.crtc, !.video_plane = sel.video, !.gui_plane = sel.gui]

\* lines 470-471: FindPlanes has run with result p
AfterFindPlanes(s, io, p) ==
  IF p.crashed THEN [WithPlanes(s, p.sel) EXCEPT !.crashed = TRUE, !.step = "FindPlanes"]
  ELSE IF p.ret # "true" THEN Fail(WithPlanes(s, p.sel), "FindPlanes")
  ELSE AfterFindPreferredMode(WithPlanes(s, p.sel), io,
                              FindPreferredMode(s.connectors[s.connector].modes, s.mode))

\* lines 467-468: FindCrtc has found o
AfterFindCrtc(s, io, o) ==
  IF o = Null THEN Fail(s, "FindCrtc")
  ELSE AfterFindPlanes([s EXCEPT !.orig_crtc = o], io,
                       FindPlanes(s.crtcs, s.planes, s.encoders[s.encoder],
                                  [crtc |-> s.crtc, video |-> s.video_plane,
                                   gui |-> s.gui_plane],
                                  io.endSlot, io.faults))

\* lines 464-465: FindEncoder has found e
AfterFindEncoder(s, io, e) ==
  IF e = Null THEN Fail(s, "FindEncoder")
  ELSE AfterFindCrtc([s EXCEPT !.encoder = e], io, FindCrtc(s.crtcs, s.encoders[e]))

\* lines 461-462: FindConnector has found c
AfterFindConnector(s, io, c) ==
  IF c = Null THEN Fail(s, "FindConnector")
  ELSE AfterFindEncoder([s EXCEPT !.connector = c], io,
                        FindEncoder(s.encoders, s.connectors[c]))

\* lines 461-474: the resolver chain, then lines 476-504
Resolve(s, io) == AfterFindConnector(s, io, FindConnector(s.connectors))

\* lines 441-459: the plane listing fills m_planes
ListPlanes(s, dev, io) ==
  IF ~io.planeRes THEN Fail(s, "GetPlaneResources")
  ELSE Resolve([s EXCEPT !.planes = @ \o [k \in 1..Len(dev.planes) |->
                                            PlaneWrapper(dev.planes[k])]], io)

\* lines 425-439: the resource listing fills the three collections
ListResources(s, dev, io) ==
  IF ~dev.res THEN Fail(s, "GetResources")
  ELSE ListPlanes(Ask([s EXCEPT !.connectors = @ \o dev.connectors,
                                !.encoders = @ \o dev.encoders,
                                !.crtcs = @ \o dev.crtcs],
                      "GetPlaneResources", io.planeRes), dev, io)

\* faulty variant of lines 411-423: a rejected aspect-ratio capability makes
\* InitDrm return false
SetStereoCapAspectFatal(s, dev, io) ==
  IF ~io.capStereo THEN Fail(s, "STEREO_3D")
  ELSE IF ~io.capAspect
       THEN Fail(Ask(s, "SetClientCap_ASPECT_RATIO", FALSE), "ASPECT_RATIO")
  ELSE ListResources(Ask(Ask(s, "SetClientCap_ASPECT_RATIO", io.capAspect),
                         "GetResources", dev.res), dev, io)

\* lines 411-423: the stereo and aspect-ratio capabilities
SetStereoCap(s, dev, io) ==
  IF ~io.capStereo THEN Fail(s, "STEREO_3D")
  ELSE ListResources(Ask(Ask(s, "SetClientCap_ASPECT_RATIO", io.capAspect),
                         "GetResources", dev.res), dev, io)

\* lines 402-409: the universal-planes capability
SetCaps(s, dev, io) ==
  IF ~io.capPlanes THEN Fail(s, "UNIVERSAL_PLANES")
  ELSE SetStereoCap(Ask(s, "SetClientCap_STEREO_3D", io.capStereo), dev, io)

\* InitDrm, lines 396-505, on the session as it is
InitDrmResult(io) ==
  IF m_fd < 0 THEN Fail(Session, "m_fd")
  ELSE SetCaps(Ask(Session, "SetClientCap_UNIVERSAL_PLANES", io.capPlanes),
               devices[fdTable[m_fd].dev], io)

\* the members as InitDrm leaves them
StoreSession(s) ==
  /\ m_connectors' = s.connectors
  /\ m_encoders' = s.encoders
  /\ m_crtcs' = s.crtcs
  /\ m_planes' = s.planes
  /\ m_connector' = s.connector
  /\ m_encoder' = s.encoder
  /\ m_crtc' = s.crtc
  /\ m_orig_crtc' = s.orig_crtc
  /\ m_video_plane' = s.video_plane
  /\ m_gui_plane' = s.gui_plane
  /\ m_mode' = s.mode
  /\ reqs' = s.reqs
  /\ ret' = s.ret
  /\ step' = s.step
  /\ crashed' = s.crashed

InitDrm ==
  /\ ~crashed
  /\ lastOp \in {"none", "OpenDrm"}
  /\ \E io \in InitInputs : StoreSession(InitDrmResult(io))
  /\ lastOp' = "InitDrm"
  /\ lastArg' = Null
  /\ UNCHANGED << devices, fdTable, m_fd, m_renderFd, m_width, m_height, fbVars,
                  retRes >>

(* ====================================================================== *)
(*                 GetResolutionInfo, SetMode and teardown                *)
(* ====================================================================== *)
\* a & b on non-negative integers
RECURSIVE BitAnd(_, _)
BitAnd(a, b) ==
  IF a = 0 \/ b = 0 THEN 0
  ELSE (a % 2) * (b % 2) + 2 * BitAnd(a \div 2, b \div 2)

\* the raw mode flags the handler tests (drm_mode.h): the interlace bit, and
\* the 3D layout, which is a five-bit field holding a layout number
DRM_MODE_FLAG_INTERLACE == 2 ^ 4
DRM_MODE_FLAG_3D_MASK == 31 * 2 ^ 14
DRM_MODE_FLAG_3D_TOP_AND_BOTTOM == 7 * 2 ^ 14
DRM_MODE_FLAG_3D_SIDE_BY_SIDE_HALF == 8 * 2 ^ 14
\* the flags of a mode whose 3D layout number is layout (0 is no 3D)
ModeFlags(layout, interlace) ==
  layout * 2 ^ 14 + (IF interlace THEN DRM_MODE_FLAG_INTERLACE ELSE 0)

\* the values of the setting videoscreen.limitguisize
Limits == 0..4

\* faulty variant of lines 593-619: the refresh rate is not looked at
GuiSizeIgnoringRefresh(mode, limit) ==
  IF limit > 0 /\ mode.hdisplay > 1920 /\ mode.vdisplay > 1080
  THEN CASE limit = 1 -> << 1280, 720 >>
         [] limit = 2 -> << 1280, 720 >>
         [] limit = 3 -> << 1920, 1080 >>
         [] limit = 4 -> << 1920, 1080 >>
         [] OTHER -> << mode.hdisplay, mode.vdisplay >>
  ELSE << mode.hdisplay, mode.vdisplay >>

\* lines 593-619: the GUI size
GuiSize(mode, limit) ==
  IF limit > 0 /\ mode.hdisplay > 1920 /\ mode.vdisplay > 1080
  THEN CASE limit = 1 -> << 1280, 720 >>
         [] limit = 2 -> IF mode.vrefresh > 30 THEN << 1280, 720 >> ELSE << 1920, 1080 >>
         [] limit = 3 -> << 1920, 1080 >>
         [] limit = 4 -> IF mode.vrefresh > 30 THEN << 1920, 1080 >>
                         ELSE << mode.hdisplay, mode.vdisplay >>
         [] OTHER -> << mode.hdisplay, mode.vdisplay >>
  ELSE << mode.hdisplay, mode.vdisplay >>

\* lines 621-624: the refresh rate, as a fraction
RefreshRate(mode) ==
  IF mode.clock % 5 # 0 THEN [num |-> mode.vrefresh * 1000, den |-> 1001]
  ELSE [num |-> mode.vrefresh, den |-> 1]

\* lines 629-639: dwFlags, as the set of output flags it holds; in the 3D
\* branch a layout that passes neither test leaves it as constructed
PresentFlags(flags) ==
  IF BitAnd(flags, DRM_MODE_FLAG_3D_MASK) # 0
  THEN IF BitAnd(flags, DRM_MODE_FLAG_3D_TOP_AND_BOTTOM) # 0 THEN {"MODE3DTB"}
       ELSE IF BitAnd(flags, DRM_MODE_FLAG_3D_SIDE_BY_SIDE_HALF) # 0 THEN {"MODE3DSBS"}
       ELSE {}
  ELSE IF BitAnd(flags, DRM_MODE_FLAG_INTERLACE) # 0 THEN {"INTERLACED"}
  ELSE {"PROGRESSIVE"}

\* lines 641-643: the mode string, as the values formatted into it
ModeString(w, h, dwFlags, rate) ==
  << w, h, IF "INTERLACED" \in dwFlags THEN "i" ELSE "", rate >>

\* GetResolutionInfo(mode), lines 588-644, under the GUI size limit set
GetResolutionInfo(mode, limit) ==
  [iScreenWidth |-> mode.hdisplay,
   iScreenHeight |-> mode.vdisplay,
   iWidth |-> GuiSize(mode, limit)[1],
   iHeight |-> GuiSize(mode, limit)[2],
   fRefreshRate |-> RefreshRate(mode),
   iSubtitles |-> (965 * GuiSize(mode, limit)[2]) \div 1000,
   fPixelRatio |-> 1,
   bFullScreen |-> TRUE,
   dwFlags |-> PresentFlags(mode.flags),
   strMode |-> ModeString(mode.hdisplay, mode.vdisplay, PresentFlags(mode.flags),
                          RefreshRate(mode))]

\* GetCurrentMode(), lines 646-649
GetCurrentMode(limit) ==
  /\ ~crashed
  /\ step = "done"
  /\ lastOp # "DestroyDrm"
  /\ retRes' = GetResolutionInfo(m_connectors[m_connector].modes[m_mode], limit)
  /\ lastOp' = "GetCurrentMode"
  /\ lastArg' = limit
  /\ ret' = "none"
  /\ reqs' = << >>
  /\ UNCHANGED << devices, fdTable, sessionVars, fbVars, crashed, step >>

\* SetMode(res), lines 43-57, res being entry i of GetModes() under the GUI
\* size limit set; checkOk is the answer of CheckConnector()
SetMode(i, limit, checkOk) ==
  /\ ~crashed
  /\ step = "done"
  /\ lastOp # "DestroyDrm"
  /\ i \in 1..Len(m_connectors[m_connector].modes)
  /\ IF ~checkOk
     THEN /\ ret' = "false"
          /\ UNCHANGED << m_mode, m_width, m_height >>
     ELSE /\ ret' = "true"
          /\ m_mode' = i
          /\ m_width' = GetResolutionInfo(m_connectors[m_connector].modes[i], limit).iWidth
          /\ m_height' = GetResolutionInfo(m_connectors[m_connector].modes[i], limit).iHeight
  /\ lastOp' = "SetMode"
  /\ lastArg' = i
  /\ reqs' = << >>
  /\ UNCHANGED << devices, fdTable, m_fd, m_renderFd, m_connectors, m_encoders,
                  m_crtcs, m_planes, m_connector, m_encoder, m_crtc, m_orig_crtc,
                  m_video_plane, m_gui_plane, fbVars, crashed, step, retRes >>

\* the descriptor is open
FdOpen(t, fd) == fd \in Fds /\ t[fd].open

\* errno values
EINVAL == 22
EBADF == 9
EACCES == 13
\* what drmAuthMagic(fd, 0) returns: 0, or the negated errno of the ioctl
AuthMagicReturns(t, fd) == IF FdOpen(t, fd) THEN {0, 0 - EINVAL, 0 - EACCES} ELSE {0 - EBADF}

\* faulty variant of the drmModeSetCrtc arguments: no framebuffer is passed
SetCrtcArgsNoBuffer(fd, crtc, connector) ==
  [fd |-> fd, crtc_id |-> crtc.id, buffer_id |-> 0, x |-> crtc.x,
   y |-> crtc.y, connector_id |-> connector.id, count |-> 1, mode |-> crtc.mode]

\* the arguments of the drmModeSetCrtc call of lines 555-556
SetCrtcArgs(fd, crtc, connector) ==
  [fd |-> fd, crtc_id |-> crtc.id, buffer_id |-> crtc.buffer_id, x |-> crtc.x,
   y |-> crtc.y, connector_id |-> connector.id, count |-> 1, mode |-> crtc.mode]

\* RestoreOriginalMode(), lines 548-568; setOk is whether the driver accepts
\* the mode-set
RestoreOriginalMode(st, setOk) ==
  IF m_orig_crtc = Null THEN [st EXCEPT !.ret = "false"]
  ELSE IF m_connector = Null THEN [st EXCEPT !.crashed = TRUE]
  ELSE [st EXCEPT !.ret = IF setOk THEN "true" ELSE "false",
                  !.reqs = Append(@, Req("SetCrtc",
                                         SetCrtcArgs(m_fd, m_crtcs[m_orig_crtc],
                                                     m_connectors[m_connector]),
                                         setOk))]

\* lines 574-575: drop master when drmAuthMagic returns EINVAL
DropMaster(st, auth, dropOk) ==
  IF auth = EINVAL
  THEN [st EXCEPT !.reqs = Append(Append(@, Req("AuthMagic", m_fd, FALSE)),
                                  Req("DropMaster", m_fd, dropOk))]
  ELSE [st EXCEPT !.reqs = Append(@, Req("AuthMagic", m_fd, auth = 0))]

\* faulty variant of lines 577-578: the device descriptor is left open
CloseRenderOnly(st) == Close(st, m_renderFd)

\* lines 577-578: the two descriptors are closed
CloseBoth(st) == Close(Close(st, m_renderFd), m_fd)

\* DestroyDrm(), lines 570-586, up to the close calls
DestroyDrmResult(setOk, auth, dropOk) ==
  LET st == [fdTable |-> fdTable, reqs |-> << >>, ret |-> "none", crashed |-> FALSE]
      r  == RestoreOriginalMode(st, setOk)
  IN IF r.crashed THEN r ELSE CloseBoth(DropMaster(r, auth, dropOk))

DestroyDrm ==
  /\ ~crashed
  /\ \E setOk \in {ok \in BOOLEAN : ok => FdOpen(fdTable, m_fd)},
        auth \in AuthMagicReturns(fdTable, m_fd), dropOk \in BOOLEAN :
       LET r == DestroyDrmResult(setOk, auth, dropOk)
       IN /\ fdTable' = r.fdTable
          /\ reqs' = r.reqs
          /\ crashed' = r.crashed
          /\ IF r.crashed
             THEN UNCHANGED << m_connector, m_encoder, m_crtc, m_orig_crtc,
                               m_video_plane, m_gui_plane >>
             ELSE /\ m_connector' = Null
                  /\ m_encoder' = Null
                  /\ m_crtc' = Null
                  /\ m_orig_crtc' = Null
                  /\ m_video_plane' = Null
                  /\ m_gui_plane' = Null
  /\ lastOp' = "DestroyDrm"
  /\ lastArg' = Null
  /\ ret' = "none"
  /\ UNCHANGED << devices, m_fd, m_renderFd, m_connectors, m_encoders, m_crtcs,
                  m_planes, m_mode, m_width, m_height, fbVars, step, retRes >>

(* ====================================================================== *)
(*                       The framebuffer binder                           *)
(* ====================================================================== *)
BOs == 1..MaxBuffers
\* addresses `new drm_fb` can return: a freed address may be handed out again
Addrs == 1..MaxBuffers
FbIds == 1..MaxFbIds

\* the content of an address that holds no live descriptor
Dead == [live |-> FALSE, fb_id |-> 0, format |-> "none"]

\* CDRMPlane::GetFormat() of the plane p points to
GetFormat(p) == m_planes[p].format

\* fb->format read through a drm_fb*: a freed descriptor reads as anything
ReadFormat(h, a) == IF h[a].live THEN {h[a].format} ELSE GuiFormats \cup {"none"}

\* fb->fb_id read through a drm_fb*: a freed descriptor reads as anything
ReadFbId(h, a) == IF h[a].live THEN {h[a].fb_id} ELSE 0..MaxFbIds

\* the part of the state DrmFbDestroyCallback and the registration change
FbState == [heap |-> heap, registered |-> registered,
            fbOwner |-> fbOwner, nextFbId |-> nextFbId, reqs |-> << >>,
            crashed |-> FALSE]

\* drmModeRmFB(drm_fd, id): the request is logged with whether the driver
\* still held the id
RmFB(st, id) ==
  [st EXCEPT !.registered = @ \ {id},
             !.fbOwner = [i \in FbIds |-> IF i = id THEN Null ELSE @[i]],
             !.reqs = Append(@, Req("RmFB", id, id \in st.registered))]

\* delete fb: of a freed descriptor it is a double free, which the allocator
\* either detects (abort) or lets pass
DeleteFb(st, a) ==
  IF st.heap[a].live
  THEN {[st EXCEPT !.heap[a] = Dead]}
  ELSE {st, [st EXCEPT !.crashed = TRUE]}

\* the guard of line 27
HasFbId(id) == id > 0

\* DrmFbDestroyCallback(bo, data): the states it can leave
DrmFbDestroyCallback(st, a) ==
  UNION { DeleteFb(IF HasFbId(id) THEN RmFB(st, id) ELSE st, a)
          : id \in ReadFbId(st.heap, a) }

\* a faulty variant of FormatMatches: the comparison of line 65 inverted
FormatMatchesInverted(planeFormat, fbFormat) == planeFormat # fbFormat

\* the comparison of line 65
FormatMatches(planeFormat, fbFormat) == planeFormat = fbFormat

\* addresses `new drm_fb` may return
FreeAddrs(h) == {a \in Addrs : ~h[a].live}

\* a faulty variant of AddFB: the legacy registration is tried first, the
\* modifier-aware one second
AddFBLegacyFirst(st, bo, a, fmt, r1, r2) ==
  LET try1 == [st EXCEPT !.reqs = Append(@, Req("AddFB2", 0, r1))]
      try2 == IF r1 THEN try1
              ELSE [try1 EXCEPT !.reqs = Append(@, Req("AddFB2WithModifiers", 0, r2))]
      id   == st.nextFbId
  IN IF r1 \/ r2
     THEN [ok |-> TRUE,
           st |-> [try2 EXCEPT !.heap[a] = [live |-> TRUE, fb_id |-> id, format |-> fmt],
                               !.registered = @ \cup {id},
                               !.fbOwner[id] = bo,
                               !.nextFbId = id + 1]]
     ELSE [ok |-> FALSE, st |-> try2]

\* drmModeAddFB2WithModifiers, then drmModeAddFB2 if it was rejected
\* (lines 109-138): r1, r2 are the driver's answers; the result is the state
\* and whether a framebuffer was registered
AddFB(st, bo, a, fmt, r1, r2) ==
  LET try1 == [st EXCEPT !.reqs = Append(@, Req("AddFB2WithModifiers", 0, r1))]
      try2 == IF r1 THEN try1
              ELSE [try1 EXCEPT !.reqs = Append(@, Req("AddFB2", 0, r2))]
      id   == st.nextFbId
  IN IF r1 \/ r2
     THEN [ok |-> TRUE,
           st |-> [try2 EXCEPT !.heap[a] = [live |-> TRUE, fb_id |-> id, format |-> fmt],
                               !.registered = @ \cup {id},
                               !.fbOwner[id] = bo,
                               !.nextFbId = id + 1]]
     ELSE [ok |-> FALSE, st |-> try2]   \* new drm_fb, then delete (fb)

\* the driver's possible answers to the two registration requests
AddAnswers(st) ==
  {<<r1, r2>> \in BOOLEAN \X BOOLEAN :
      /\ (r1 => r2)                             \* r2 is not asked when r1
      /\ (r1 \/ r2) => st.nextFbId <= MaxFbIds}

\* DrmFbGetFromBo(bo), lines 59-143: every outcome of one call, as the values
\* the call leaves
DrmFbGetFromBoOutcomes(bo) ==
  LET fb  == userData[bo]
      fmt == GetFormat(m_gui_plane)
      keepUd == [ud |-> userData[bo], cb |-> destroyCb[bo]]
      fast == IF fb # Null /\ (\E f \in ReadFormat(heap, fb) : FormatMatches(fmt, f))
              THEN {[st |-> FbState, ret |-> fb, new |-> Null, set |-> keepUd]}
              ELSE {}
      slowStart ==
        IF fb = Null THEN {FbState}
        ELSE IF \E f \in ReadFormat(heap, fb) : ~FormatMatches(fmt, f)
             THEN DrmFbDestroyCallback(FbState, fb)
             ELSE {}
      slow ==
        UNION { IF st1.crashed
                THEN {[st |-> st1, ret |-> Null, new |-> Null, set |-> keepUd]}
                ELSE { LET r == AddFB(st1, bo, a, fmt, rr[1], rr[2])
                       IN IF r.ok
                          THEN [st |-> r.st, ret |-> a, new |-> a,
                                set |-> [ud |-> a, cb |-> TRUE]]
                          ELSE [st |-> r.st, ret |-> Null, new |-> a, set |-> keepUd]
                       : a \in FreeAddrs(st1.heap), rr \in AddAnswers(st1) }
                : st1 \in slowStart }
  IN fast \cup slow

ApplyFbState(st) ==
  /\ heap' = st.heap
  /\ registered' = st.registered
  /\ fbOwner' = st.fbOwner
  /\ nextFbId' = st.nextFbId
  /\ reqs' = st.reqs
  /\ crashed' = st.crashed

DrmFbGetFromBo(bo) ==
  /\ ~crashed
  /\ boAlive[bo]
  /\ m_gui_plane \in 1..Len(m_planes)
  /\ \E o \in DrmFbGetFromBoOutcomes(bo) :
       /\ ApplyFbState(o.st)
       /\ userData' = [userData EXCEPT ![bo] = o.set.ud]
       /\ destroyCb' = [destroyCb EXCEPT ![bo] = o.set.cb]
       /\ retFb' = o.ret
  /\ lastOp' = "DrmFbGetFromBo"
  /\ lastArg' = bo
  /\ ret' = "none"
  /\ UNCHANGED << devices, fdTable, sessionVars, boAlive, step, retRes >>

\* gbm_bo_destroy(bo): the buffer provider runs the attached destroy callback
\* on the attached user data, then frees the buffer
ReleaseBo(bo) ==
  /\ ~crashed
  /\ boAlive[bo]
  /\ \E st \in (IF destroyCb[bo] THEN DrmFbDestroyCallback(FbState, userData[bo])
                ELSE {FbState}) :
       ApplyFbState(st)
  /\ boAlive' = [boAlive EXCEPT ![bo] = FALSE]
  /\ userData' = [userData EXCEPT ![bo] = Null]
  /\ destroyCb' = [destroyCb EXCEPT ![bo] = FALSE]
  /\ lastOp' = "ReleaseBo"
  /\ lastArg' = bo
  /\ ret' = "none"
  /\ retFb' = Null
  /\ UNCHANGED << devices, fdTable, sessionVars, step, retRes >>

\* CDRMPlane::SetFormat(f) on the GUI plane
SetFormat(f) ==
  /\ ~crashed
  /\ m_gui_plane \in 1..Len(m_planes)
  /\ f # GetFormat(m_gui_plane)
  /\ m_planes' = [m_planes EXCEPT ![m_gui_plane].format = f]
  /\ lastOp' = "SetFormat"
  /\ lastArg' = f
  /\ ret' = "none"
  /\ reqs' = << >>
  /\ retFb' = Null
  /\ UNCHANGED << devices, fdTable, m_fd, m_renderFd, m_connectors, m_encoders,
                  m_crtcs, m_connector, m_encoder, m_crtc, m_orig_crtc, m_video_plane,
                  m_gui_plane, m_mode, m_width, m_height, boAlive, userData,
                  destroyCb, heap, registered, fbOwner, nextFbId, crashed, step,
                  retRes >>

\* no buffer has been bound yet
InitBinder ==
  /\ boAlive = [b \in BOs |-> TRUE]
  /\ userData = [b \in BOs |-> Null]
  /\ destroyCb = [b \in BOs |-> FALSE]
  /\ heap = [a \in Addrs |-> Dead]
  /\ registered = {}
  /\ fbOwner = [i \in FbIds |-> Null]
  /\ nextFbId = 1
  /\ retFb = Null

(* ====================================================================== *)
(*                     The systems the session runs on                    *)
(* ====================================================================== *)
\* a session just constructed
InitSession ==
  /\ fdTable = [fd \in Fds |-> Closed]
  /\ m_fd = NoFd
  /\ m_renderFd = NoFd
  /\ m_connectors = << >>
  /\ m_encoders = << >>
  /\ m_crtcs = << >>
  /\ m_planes = << >>
  /\ m_connector = Null
  /\ m_encoder = Null
  /\ m_crtc = Null
  /\ m_orig_crtc = Null
  /\ m_video_plane = Null
  /\ m_gui_plane = Null
  /\ m_mode = Null
  /\ m_width = 0
  /\ m_height = 0
  /\ retRes = "none"
  /\ crashed = FALSE
  /\ lastOp = "none"
  /\ lastArg = Null
  /\ ret = "none"
  /\ step = "none"
  /\ reqs = << >>

\* sequences over S of length at most n
SeqUpTo(S, n) == UNION {[1..k -> S] : k \in 0..n}

\* the identities filled in by position, counted from base
WithIds(seq, base) == [k \in 1..Len(seq) |-> [id |-> base + k] @@ seq[k]]

\* a mode as the connector lists it
Mode(h, v, vrefresh, clock, flags, preferred) ==
  [hdisplay |-> h, vdisplay |-> v, vrefresh |-> vrefresh, clock |-> clock,
   flags |-> flags, preferred |-> preferred]
Mode1080 == Mode(1920, 1080, 60, 148500, 0, FALSE)
ModeLists == {<< >>, << Mode1080 >>}

\* the CRTCs as the driver reports them: identity, the framebuffer scanned
\* out, the origin, and the mode set (by its vertical refresh)
AllCrtcs ==
  [k \in 1..MaxCrtcs |->
     [id |-> CrtcId(k), buffer_id |-> FbOfCrtc(k), x |-> 0, y |-> k - 1, mode |-> 70 + k]]
CrtcMasks == 0..(2 ^ MaxCrtcs - 1)

ConnectorLists(modes) ==
  {WithIds(cs, ConnectorId(0)) :
     cs \in SeqUpTo([encoder_id : {0} \cup {EncoderId(k) : k \in 1..MaxEncoders},
                     connected : BOOLEAN, modes : {modes}], MaxConnectors)}

EncoderLists ==
  {WithIds(es, EncoderId(0)) :
     es \in SeqUpTo([possible_crtcs : CrtcMasks,
                     crtc_id : {0} \cup {CrtcId(k) : k \in 1..MaxCrtcs}], MaxEncoders)}

\* the format lists a plane reports
PlaneFormats == { {}, {NV12}, {XRGB8888}, {ARGB8888, XRGB8888},
                  {NV12, ARGB8888, XRGB8888} }

PlaneLists ==
  {WithIds(ps, PlaneId(0)) :
     ps \in SeqUpTo([possible_crtcs : CrtcMasks, formats : PlaneFormats,
                     in_formats : {FALSE}], MaxPlanes)}

\* a video plane and a GUI plane attachable to every CRTC
StdPlanes ==
  << [id |-> PlaneId(1), possible_crtcs |-> 2 ^ MaxCrtcs - 1, formats |-> {NV12},
      in_formats |-> TRUE],
     [id |-> PlaneId(2), possible_crtcs |-> 2 ^ MaxCrtcs - 1,
      formats |-> {ARGB8888, XRGB8888}, in_formats |-> FALSE] >>

\* a connected connector on encoder 1
StdConnectors ==
  << [id |-> ConnectorId(1), encoder_id |-> EncoderId(1), connected |-> TRUE,
      modes |-> << Mode1080 >>] >>

\* encoder 1, bound to the first CRTC and able to drive every CRTC
StdEncoders ==
  << [id |-> EncoderId(1), possible_crtcs |-> 2 ^ MaxCrtcs - 1, crtc_id |-> CrtcId(1)] >>

PrimaryOnly == << "ok", "absent", "absent" >>

Device(nodes, res, render, cs, es, crtcs, ps) ==
  [nodes |-> nodes, res |-> res, render |-> render, connectors |-> cs,
   encoders |-> es, crtcs |-> crtcs, planes |-> ps]

StdDevice ==
  Device(PrimaryOnly, TRUE, "none", StdConnectors, StdEncoders, AllCrtcs, StdPlanes)

\* Spec: one device whose connectors, encoders and mode list vary
Init ==
  /\ \E res \in BOOLEAN, modes \in ModeLists, ps \in {<< >>, StdPlanes} :
       \E cs \in ConnectorLists(modes), es \in EncoderLists :
         devices = << Device(PrimaryOnly, res, "none", cs, es, AllCrtcs, ps) >>
  /\ InitSession
  /\ InitBinder

\* SpecPlanes: one device with one connected connector whose encoder and
\* planes vary
InitPlanes ==
  /\ \E ps \in PlaneLists, mask \in CrtcMasks, k \in 1..MaxCrtcs :
       devices = << Device(PrimaryOnly, TRUE, "none", StdConnectors,
                           << [id |-> EncoderId(1), possible_crtcs |-> mask,
                               crtc_id |-> CrtcId(k)] >>,
                           AllCrtcs, ps) >>
  /\ InitSession
  /\ InitBinder

\* SpecOpen: the devices, their nodes and their connectors vary
NodeLists == { PrimaryOnly,
               << "openfail", "absent", "absent" >>,
               << "openfail", "absent", "ok" >>,
               << "absent", "absent", "absent" >> }
OpenConnectorLists ==
  { << >>, StdConnectors,
    << [id |-> ConnectorId(1), encoder_id |-> EncoderId(1), connected |-> FALSE,
        modes |-> << >>] >>,
    << [id |-> ConnectorId(1), encoder_id |-> 0, connected |-> TRUE,
        modes |-> << Mode1080 >>] >> }
OpenDevices ==
  { Device(nodes, res, render, cs, StdEncoders, AllCrtcs, StdPlanes) :
      nodes \in NodeLists, res \in BOOLEAN, render \in {"none", "fail", "ok"},
      cs \in OpenConnectorLists }

InitOpen ==
  /\ devices \in SeqUpTo(OpenDevices, MaxDevices)
  /\ InitSession
  /\ InitBinder

NextSession ==
  \/ \E needConnector \in BOOLEAN : OpenDrm(needConnector)
  \/ InitDrm

Spec == Init /\ [][NextSession]_vars
SpecPlanes == InitPlanes /\ [][NextSession]_vars
SpecOpen == InitOpen /\ [][NextSession]_vars

\* SpecFb: the session InitDrm has brought up on the standard device, with
\* master granted
InitFb ==
  /\ devices = << StdDevice >>
  /\ fdTable = [fd \in Fds |-> IF fd = 3 THEN [open |-> TRUE, dev |-> 1, kind |-> "card"]
                                ELSE Closed]
  /\ m_fd = 3
  /\ m_renderFd = NoFd
  /\ m_connectors = StdConnectors
  /\ m_encoders = StdEncoders
  /\ m_crtcs = AllCrtcs
  /\ m_planes = [k \in 1..Len(StdPlanes) |-> PlaneWrapper(StdPlanes[k])]
  /\ m_connector = 1
  /\ m_encoder = 1
  /\ m_crtc = 1
  /\ m_orig_crtc = 1
  /\ m_video_plane = 1
  /\ m_gui_plane = 2
  /\ m_mode = 1
  /\ m_width = 0
  /\ m_height = 0
  /\ retRes = "none"
  /\ crashed = FALSE
  /\ lastOp = "InitDrm"
  /\ lastArg = Null
  /\ ret = "true"
  /\ step = "done"
  /\ reqs = << Req("SetClientCap_UNIVERSAL_PLANES", 0, TRUE),
               Req("SetClientCap_STEREO_3D", 0, TRUE),
               Req("SetClientCap_ASPECT_RATIO", 0, TRUE),
               Req("GetResources", 0, TRUE), Req("GetPlaneResources", 0, TRUE),
               Req("SetMaster", 0, TRUE) >>
  /\ InitBinder

NextFb ==
  \/ \E bo \in BOs : DrmFbGetFromBo(bo)
  \/ \E bo \in BOs : ReleaseBo(bo)
  \/ \E f \in GuiFormats : SetFormat(f)

SpecFb == InitFb /\ [][NextFb]_vars

\* SpecLife: a session from construction to teardown on one device whose
\* node, listings, connector, encoder and planes vary
Mode2160 == Mode(3840, 2160, 60, 594000, 0, FALSE)
LifeConnectorLists ==
  OpenConnectorLists \cup
  { << [id |-> ConnectorId(1), encoder_id |-> EncoderId(1), connected |-> TRUE,
        modes |-> << >>] >>,
    << [id |-> ConnectorId(1), encoder_id |-> EncoderId(1), connected |-> TRUE,
        modes |-> << Mode1080, Mode2160 >>] >> }
LifeEncoderLists ==
  { << >>, StdEncoders,
    << [id |-> EncoderId(1), possible_crtcs |-> 1, crtc_id |-> 0] >>,
    << [id |-> EncoderId(1), possible_crtcs |-> 2 ^ MaxCrtcs - 1,
        crtc_id |-> CrtcId(MaxCrtcs)] >> }
LifeDevices ==
  { Device(nodes, res, render, cs, es, AllCrtcs, ps) :
      nodes \in {PrimaryOnly, << "openfail", "absent", "absent" >>},
      res \in BOOLEAN, render \in {"none", "ok"}, cs \in LifeConnectorLists,
      es \in LifeEncoderLists, ps \in {<< >>, StdPlanes, << StdPlanes[1] >>} }

InitLife ==
  /\ \E dev \in LifeDevices : devices = << dev >>
  /\ InitSession
  /\ InitBinder

\* the session binds its first buffer
BindFirst == nextFbId = 1 /\ DrmFbGetFromBo(1)

NextLife ==
  \/ \E needConnector \in BOOLEAN : OpenDrm(needConnector)
  \/ InitDrm
  \/ \E i \in 1..2, limit \in Limits, checkOk \in BOOLEAN : SetMode(i, limit, checkOk)
  \/ BindFirst
  \/ DestroyDrm

SpecLife == InitLife /\ [][NextLife]_vars

\* SpecModes: the standard device, the mode list of its connector varied
PreferredModes ==
  { Mode(d[1], d[2], 60, 148500, 0, preferred) :
      d \in { << 1280, 720 >>, << 1920, 1080 >>, << 1080, 1920 >> },
      preferred \in BOOLEAN }

InitModes ==
  /\ \E modes \in SeqUpTo(PreferredModes, MaxModes) :
       devices = << Device(PrimaryOnly, TRUE, "none",
                           << [id |-> ConnectorId(1), encoder_id |-> EncoderId(1),
                               connected |-> TRUE, modes |-> modes] >>,
                           StdEncoders, AllCrtcs, StdPlanes) >>
  /\ InitSession
  /\ InitBinder

SpecModes == InitModes /\ [][NextSession]_vars

\* SpecInfo: the standard device, the one mode of its connector varied in
\* size, refresh rate, clock, 3D layout and interlace flag
InfoSizes == { << 1280, 720 >>, << 1920, 1080 >>, << 2560, 1080 >>, << 1920, 1200 >>,
               << 3840, 2160 >> }
\* the 3D layout numbers drm_mode.h defines (0 is no 3D)
Layouts == 0..8
InfoModes ==
  { Mode(d[1], d[2], vrefresh, clock, ModeFlags(layout, interlace), FALSE) :
      d \in InfoSizes, vrefresh \in {30, 60}, clock \in {148352, 148500},
      layout \in Layouts, interlace \in BOOLEAN }

InitInfo ==
  /\ \E mode \in InfoModes :
       devices = << Device(PrimaryOnly, TRUE, "none",
                           << [id |-> ConnectorId(1), encoder_id |-> EncoderId(1),
                               connected |-> TRUE, modes |-> << mode >>] >>,
                           StdEncoders, AllCrtcs, StdPlanes) >>
  /\ InitSession
  /\ InitBinder

NextInfo ==
  \/ \E needConnector \in BOOLEAN : OpenDrm(needConnector)
  \/ InitDrm
  \/ \E limit \in Limits : GetCurrentMode(limit)

SpecInfo == InitInfo /\ [][NextInfo]_vars

\* SpecNodes: the devices, their nodes, their listing and their render node
\* vary; the session is opened and torn down
NodeDevices ==
  { Device(nodes, res, render, StdConnectors, StdEncoders, AllCrtcs, StdPlanes) :
      nodes \in { PrimaryOnly, << "openfail", "absent", "ok" >>, << "ok", "absent", "ok" >> },
      res \in BOOLEAN, render \in {"none", "fail", "ok"} }

InitNodes ==
  /\ devices \in SeqUpTo(NodeDevices, MaxDevices)
  /\ InitSession
  /\ InitBinder

NextNodes ==
  \/ \E needConnector \in BOOLEAN : OpenDrm(needConnector)
  \/ DestroyDrm

SpecNodes == InitNodes /\ [][NextNodes]_vars

(* ====================================================================== *)
(*                       Properties of OpenDrm                            *)
(* ====================================================================== *)
\* the step is a call of handler op with argument a
Called(op, a) == lastOp' = op /\ lastArg' = a

\* the device has a connector with an encoder association that is connected
HasUsableConnector(dev) == ConnectorScan(dev.connectors) <= Len(dev.connectors)

\* C2: OpenDrm(true) returns success only while holding a device one of
\* whose connectors has a non-zero encoder association and is connected; a
\* device without such a connector is rejected.
C2_RejectsDeviceWithoutConnector ==
  [][ (Called("OpenDrm", TRUE) /\ ret' = "true")
        => HasUsableConnector(devices[fdTable'[m_fd'].dev]) ]_vars

(* ====================================================================== *)
(*              Properties of the topology resolver                       *)
(* ====================================================================== *)
\* InitDrm got as far as calling FindPlanes
FindPlanesRan ==
  /\ lastOp = "InitDrm"
  /\ step \in {"FindPlanes", "FindPreferredMode", "GetMagic", "AuthMagic", "done"}

\* FindPlanes returned true to InitDrm
FindPlanesSucceeded == FindPlanesRan /\ ~crashed /\ step # "FindPlanes"

\* a pointer to one of the planes of m_planes
IsPlane(p) == p \in 1..Len(m_planes)

\* the encoder FindEncoder selected
Encoder == m_encoders[m_encoder]

\* a plane attachable to the CRTC of index i supports NV12
HasVideoCandidate(i) == \E v \in 1..Len(m_planes) : IsVideoPlane(m_planes[v], i)

\* the CRTC of index i has a video plane and a different plane with both
\* 32-bit RGB formats
HasBothPlanes(i) ==
  \E v, g \in 1..Len(m_planes) :
    /\ v # g
    /\ IsVideoPlane(m_planes[v], i)
    /\ Attachable(m_planes[g], i)
    /\ {ARGB8888, XRGB8888} \subseteq m_planes[g].formats

\* C3: when some CRTC has both a video plane and a different plane with both
\* 32-bit RGB formats attachable to it, FindPlanes commits a CRTC together
\* with a video plane and a GUI plane.
C3_CommitsBothPlanes ==
  (FindPlanesRan /\ \E i \in 0..(Len(m_crtcs) - 1) : HasBothPlanes(i))
    => /\ m_crtc # Null
       /\ IsPlane(m_video_plane)
       /\ IsPlane(m_gui_plane)

\* the CRTC of index i yields a GUI plane: it has a GUI-plane candidate, and
\* either a video-plane candidate too or it is the CRTC the encoder is bound to
YieldsGuiPlane(i) ==
  /\ \E g \in 1..Len(m_planes) :
       /\ Attachable(m_planes[g], i)
       /\ XRGB8888 \in m_planes[g].formats
       /\ HasVideoCandidate(i) =>
            /\ ARGB8888 \in m_planes[g].formats
            /\ g # FindIf({v \in 1..Len(m_planes) : IsVideoPlane(m_planes[v], i)},
                          Len(m_planes))
  /\ HasVideoCandidate(i) \/ m_crtcs[i + 1].id = Encoder.crtc_id

\* C4: FindPlanes returns false and selects nothing when no CRTC yields a
\* GUI plane; it never returns true without a GUI plane selected and never
\* reads a plane that was not found.
C4_FailsWithoutGuiPlane ==
  FindPlanesRan =>
    /\ ~crashed
    /\ (\A i \in 0..(Len(m_crtcs) - 1) : ~YieldsGuiPlane(i))
         => (step = "FindPlanes" /\ ret = "false" /\ m_gui_plane = Null)
    /\ step # "FindPlanes" => IsPlane(m_gui_plane)
    /\ m_video_plane # Null => IsPlane(m_video_plane)

\* C5: when InitDrm returns false, no selection made by the call remains set.
C5_NoPartialState ==
  (lastOp = "InitDrm" /\ ret = "false")
    => /\ m_connector = Null
       /\ m_encoder = Null
       /\ m_crtc = Null
       /\ m_orig_crtc = Null
       /\ m_video_plane = Null
       /\ m_gui_plane = Null
       /\ m_mode = Null

\* C6: after FindConnector, FindEncoder, FindCrtc and FindPlanes succeeded,
\* the connector is connected, its encoder association is the selected
\* encoder, and the selected CRTC's index is in the encoder's bitmask.
C6_MutuallyCompatible ==
  FindPlanesSucceeded
    => /\ m_connectors[m_connector].connected
       /\ m_connectors[m_connector].encoder_id = Encoder.id
       /\ m_crtc # Null
       /\ Bit(Encoder.possible_crtcs, m_crtc - 1)

\* C7: after FindPlanes, the video plane and the GUI plane selected are
\* never the same plane.
C7_DistinctPlanes ==
  FindPlanesRan => ~(m_video_plane # Null /\ m_video_plane = m_gui_plane)

\* C8: after FindPlanes succeeds, the selected planes are attachable to the
\* selected CRTC, the video plane supports NV12, the GUI plane supports
\* XRGB8888, and also ARGB8888 when a video plane is selected.
C8_SelectedPlanesEligible ==
  FindPlanesSucceeded
    => /\ IsPlane(m_gui_plane)
       /\ Attachable(m_planes[m_gui_plane], m_crtc - 1)
       /\ XRGB8888 \in m_planes[m_gui_plane].formats
       /\ m_video_plane # Null
            => /\ IsPlane(m_video_plane)
               /\ Attachable(m_planes[m_video_plane], m_crtc - 1)
               /\ NV12 \in m_planes[m_video_plane].formats
               /\ ARGB8888 \in m_planes[m_gui_plane].formats

(* ====================================================================== *)
(*                 Properties of the framebuffer binder                   *)
(* ====================================================================== *)

\* C1: over any sequence of DrmFbGetFromBo calls, format changes and the
\* release of the buffer, every framebuffer id the driver handed out is
\* removed exactly once: no handler asks the driver to remove an id it has
\* already removed, and no id stays registered once its buffer is released.
C1_RemovedExactlyOnce ==
  [][ /\ \A i \in DOMAIN reqs' :
           (reqs'[i].op = "RmFB" /\ reqs'[i].arg < nextFbId) => reqs'[i].ok
      /\ \A id \in registered' : boAlive'[fbOwner'[id]] ]_vars

\* the buffer carries a live descriptor whose format is the GUI plane's
BoundMatching(bo) ==
  /\ userData[bo] # Null
  /\ heap[userData[bo]].live
  /\ heap[userData[bo]].format = GetFormat(m_gui_plane)

\* C9: a call on a buffer that carries a bound framebuffer of the GUI plane's
\* format returns that same descriptor and issues no registration and no
\* removal request; nothing the binder or the driver holds changes.
C9_Idempotent ==
  [][ \A bo \in BOs : (Called("DrmFbGetFromBo", bo) /\ BoundMatching(bo)) =>
         /\ retFb' = userData[bo]
         /\ reqs' = << >>
         /\ UNCHANGED << heap, registered, fbOwner, nextFbId, userData, destroyCb >> ]_vars

\* C9 witness: the fast path has just returned a live, registered descriptor
C9_Witness ==
  /\ lastOp = "DrmFbGetFromBo"
  /\ reqs = << >>
  /\ retFb # Null
  /\ heap[retFb].live
  /\ heap[retFb].fb_id \in registered
  /\ heap[retFb].format = GetFormat(m_gui_plane)
  /\ \E bo \in BOs : userData[bo] = retFb

\* the registration requests among the requests of a handler
AddReqs(rs) == SelectSeq(rs, LAMBDA r : r.op # "RmFB")
ModOk == << Req("AddFB2WithModifiers", 0, TRUE) >>
LegacyOk == << Req("AddFB2WithModifiers", 0, FALSE), Req("AddFB2", 0, TRUE) >>
BothRejected == << Req("AddFB2WithModifiers", 0, FALSE), Req("AddFB2", 0, FALSE) >>

\* C10: the modifier-aware registration is requested first and the legacy one
\* only after it was rejected; when both are rejected the call returns null,
\* the new descriptor is freed, no id is registered and nothing is attached to
\* the buffer; a call in which a registration is accepted (also after earlier
\* failures) returns a live descriptor of the GUI plane's format whose id the
\* driver holds, attached to the buffer with the destroy callback.
C10_RegistrationFallback ==
  [][ \A bo \in BOs : Called("DrmFbGetFromBo", bo) =>
        LET adds == AddReqs(reqs') IN
        /\ adds \in {<< >>, ModOk, LegacyOk, BothRejected}
        /\ adds = BothRejected =>
             /\ retFb' = Null
             /\ registered' \subseteq registered
             /\ nextFbId' = nextFbId
             /\ \A a \in Addrs : heap'[a].live => heap[a].live
             /\ userData'[bo] = userData[bo]
             /\ destroyCb' = destroyCb
        /\ adds \in {ModOk, LegacyOk} =>
             /\ retFb' # Null
             /\ heap'[retFb'].live
             /\ heap'[retFb'].fb_id \in registered'
             /\ heap'[retFb'].fb_id \notin registered
             /\ heap'[retFb'].format = GetFormat(m_gui_plane)
             /\ userData'[bo] = retFb'
             /\ destroyCb'[bo] ]_vars

\* C10 witness: both registrations were just rejected after an earlier call
\* had registered a framebuffer
C10_Witness ==
  /\ lastOp = "DrmFbGetFromBo"
  /\ AddReqs(reqs) = BothRejected
  /\ retFb = Null
  /\ nextFbId > 1

(* ====================================================================== *)
(*                 Properties of InitDrm's authorization                  *)
(* ====================================================================== *)
\* the last handler issued the request op / got it accepted / got it refused
Asked(op) == \E k \in 1..Len(reqs) : reqs[k].op = op
Accepted(op) == \E k \in 1..Len(reqs) : reqs[k].op = op /\ reqs[k].ok
Refused(op) == \E k \in 1..Len(reqs) : reqs[k].op = op /\ ~reqs[k].ok
\* every request a comes before every request b
Before(a, b) ==
  \A j, k \in 1..Len(reqs) : (reqs[j].op = a /\ reqs[k].op = b) => j < k

\* the four resolvers and FindPreferredMode have all succeeded
Resolved ==
  /\ ~crashed
  /\ m_connector # Null
  /\ m_encoder # Null
  /\ m_orig_crtc # Null
  /\ m_gui_plane # Null
  /\ m_mode # Null

\* C11: InitDrm requests master only after connector, encoder, CRTC, plane
\* and mode resolution all succeeded; it attempts the magic handshake
\* (GetMagic, then AuthMagic) only when the master request was refused, and
\* AuthMagic only when GetMagic succeeded; it returns true exactly when
\* master was granted or both handshake steps succeeded.
C11_AuthorizationOrder ==
  lastOp = "InitDrm" =>
    /\ Asked("SetMaster") => (Resolved /\ Before("GetPlaneResources", "SetMaster"))
    /\ Asked("GetMagic") <=> Refused("SetMaster")
    /\ Asked("AuthMagic") <=> Accepted("GetMagic")
    /\ Before("SetMaster", "GetMagic")
    /\ Before("GetMagic", "AuthMagic")
    /\ ret = "true" <=> (Accepted("SetMaster") \/ Accepted("AuthMagic"))
    /\ (Refused("GetMagic") \/ Refused("AuthMagic")) => ret = "false"
    /\ (Resolved /\ step \in {"GetMagic", "AuthMagic", "done"}) => Asked("SetMaster")

\* C11 witness: master was refused and the handshake let InitDrm succeed
C11_Witness ==
  /\ lastOp = "InitDrm"
  /\ Refused("SetMaster")
  /\ Accepted("GetMagic")
  /\ Accepted("AuthMagic")
  /\ ret = "true"

(* ====================================================================== *)
(*                 Properties of InitDrm's capabilities                   *)
(* ====================================================================== *)
\* no connector, encoder, CRTC or plane wrapper has been created
NoWrappers ==
  /\ m_connectors = << >>
  /\ m_encoders = << >>
  /\ m_crtcs = << >>
  /\ m_planes = << >>

\* two runs of InitDrm end alike: same result, same return point, same
\* collections and selections
SameOutcome(a, b) ==
  [a EXCEPT !.reqs = << >>] = [b EXCEPT !.reqs = << >>]

\* from this state, the answer to the aspect-ratio capability makes no
\* difference to how InitDrm ends
AspectIrrelevant ==
  \A io \in InitInputs :
    SameOutcome(InitDrmResult([io EXCEPT !.capAspect = TRUE]),
                InitDrmResult([io EXCEPT !.capAspect = FALSE]))

\* C12: InitDrm requests the universal-planes and stereo-3D capabilities
\* before any wrapper is created; when either is rejected it returns false
\* with all four collections still empty; the answer to the aspect-ratio
\* capability never changes the result.
C12_CapsBeforeWrappers ==
  /\ (lastOp = "InitDrm" /\ m_fd >= 0) =>
       /\ reqs[1].op = "SetClientCap_UNIVERSAL_PLANES"
       /\ Accepted("SetClientCap_UNIVERSAL_PLANES")
            => reqs[2].op = "SetClientCap_STEREO_3D"
       /\ Before("SetClientCap_STEREO_3D", "GetResources")
       /\ Before("SetClientCap_STEREO_3D", "GetPlaneResources")
       /\ ~NoWrappers => (Accepted("SetClientCap_UNIVERSAL_PLANES")
                            /\ Accepted("SetClientCap_STEREO_3D"))
       /\ (Refused("SetClientCap_UNIVERSAL_PLANES") \/ Refused("SetClientCap_STEREO_3D"))
            => (ret = "false" /\ NoWrappers /\ ~Asked("GetResources"))
  /\ (~crashed /\ lastOp \in {"none", "OpenDrm"}) => AspectIrrelevant

\* C12 witness: the stereo-3D capability was rejected
C12_Witness ==
  /\ lastOp = "InitDrm"
  /\ Accepted("SetClientCap_UNIVERSAL_PLANES")
  /\ Refused("SetClientCap_STEREO_3D")
  /\ ret = "false"
  /\ NoWrappers

(* ====================================================================== *)
(*                    Properties of FindPreferredMode                     *)
(* ====================================================================== *)
\* the mode list of the connector selected
Modes == m_connectors[m_connector].modes
Area(k) == Modes[k].hdisplay * Modes[k].vdisplay
Preferred == {k \in 1..Len(Modes) : Modes[k].preferred}
Largest == {k \in 1..Len(Modes) : \A j \in 1..Len(Modes) : Area(j) <= Area(k)}
\* the earliest of a non-empty set of positions
Earliest(S) == CHOOSE k \in S : \A j \in S : k <= j

\* C13: FindPreferredMode fails when the connector's mode list is empty; on
\* a non-empty list it succeeds and selects the first mode flagged preferred
\* if there is one (no later mode affects the result), otherwise the earliest
\* mode whose width times height is the largest.
C13_PreferredMode ==
  FindPlanesSucceeded =>
    IF Modes = << >>
    THEN step = "FindPreferredMode" /\ ret = "false" /\ m_mode = Null
    ELSE /\ step # "FindPreferredMode"
         /\ m_mode = IF Preferred # {} THEN Earliest(Preferred) ELSE Earliest(Largest)
         /\ Preferred # {}
              => FindPreferredMode(SubSeq(Modes, 1, m_mode), Null) = m_mode

\* C13 witness: no mode is preferred, two modes share the largest area and
\* the earlier of them is selected
C13_Witness ==
  /\ FindPlanesSucceeded
  /\ Modes # << >>
  /\ Preferred = {}
  /\ Cardinality(Largest) >= 2
  /\ m_mode = Earliest(Largest)
  /\ m_mode > 1

(* ====================================================================== *)
(*                 Properties of the original CRTC                        *)
(* ====================================================================== *)
\* the positions of the drmModeSetCrtc requests among the requests rs
SetCrtcReqs(rs) == {k \in 1..Len(rs) : rs[k].op = "SetCrtc"}

\* RestoreOriginalMode called on its own in this state
RestoreAlone(setOk) ==
  RestoreOriginalMode([fdTable |-> fdTable, reqs |-> << >>, ret |-> "none",
                       crashed |-> FALSE], setOk)

\* C14: the original CRTC recorded by FindCrtc is not changed by later
\* session operations (the rest of InitDrm, SetMode, framebuffer binding)
\* until teardown; at teardown RestoreOriginalMode issues one mode-set with
\* exactly that CRTC's identity, framebuffer id, origin and mode; when no
\* original CRTC is recorded it returns false without a driver request and
\* without a fault.
C14_OriginalCrtcRestored ==
  [][ /\ (m_orig_crtc # Null /\ ~Called("DestroyDrm", Null))
           => (m_orig_crtc' = m_orig_crtc /\ m_crtcs' = m_crtcs)
      /\ (Called("InitDrm", Null) /\ m_orig_crtc' # Null)
           => m_crtcs'[m_orig_crtc'].id = m_encoders'[m_encoder'].crtc_id
      /\ (Called("DestroyDrm", Null) /\ m_orig_crtc # Null)
           => /\ SetCrtcReqs(reqs') = {1}
              /\ reqs'[1].arg = [fd |-> m_fd,
                                 crtc_id |-> m_encoders[m_encoder].crtc_id,
                                 buffer_id |-> m_crtcs[m_orig_crtc].buffer_id,
                                 x |-> m_crtcs[m_orig_crtc].x,
                                 y |-> m_crtcs[m_orig_crtc].y,
                                 connector_id |-> m_connectors[m_connector].id,
                                 count |-> 1,
                                 mode |-> m_crtcs[m_orig_crtc].mode]
              /\ ~crashed'
      /\ (Called("DestroyDrm", Null) /\ m_orig_crtc = Null)
           => (SetCrtcReqs(reqs') = {} /\ ~crashed')
      /\ (~crashed /\ m_orig_crtc = Null)
           => \A setOk \in BOOLEAN :
                /\ RestoreAlone(setOk).ret = "false"
                /\ RestoreAlone(setOk).reqs = << >>
                /\ ~RestoreAlone(setOk).crashed ]_vars

\* C14 witness: after SetMode and a framebuffer binding, teardown has
\* restored an original CRTC that is not the CRTC FindPlanes selected
C14_Witness ==
  /\ lastOp = "DestroyDrm"
  /\ SetCrtcReqs(reqs) = {1}
  /\ reqs[1].arg.crtc_id = CrtcId(MaxCrtcs)
  /\ reqs[1].arg.buffer_id = FbOfCrtc(MaxCrtcs)
  /\ m_width # 0
  /\ nextFbId > 1

(* ====================================================================== *)
(*                       Properties of DestroyDrm                         *)
(* ====================================================================== *)
\* no descriptor of the table t is open
AllClosed(t) == \A fd \in Fds : ~t[fd].open

\* the six selections DestroyDrm resets
SelectionsCleared ==
  /\ m_connector = Null
  /\ m_encoder = Null
  /\ m_crtc = Null
  /\ m_orig_crtc = Null
  /\ m_video_plane = Null
  /\ m_gui_plane = Null

\* what drmAuthMagic can answer, and EINVAL itself, the value line 574
\* compares with
AuthAnswers == AuthMagicReturns(fdTable, m_fd) \cup {EINVAL}

\* C15: from every session state that has not faulted (never opened, open
\* failed, initialization failed at any step, initialization succeeded) and
\* whatever the driver answers to the mode restore, to drmAuthMagic and to
\* drmDropMaster, DestroyDrm runs to completion, closes the device
\* descriptor, and leaves the six selections cleared; no failure is passed
\* on.
C15_TeardownCompletes ==
  /\ ~crashed =>
       \A setOk \in BOOLEAN, auth \in AuthAnswers, dropOk \in BOOLEAN :
         LET r == DestroyDrmResult(setOk, auth, dropOk)
         IN ~r.crashed /\ AllClosed(r.fdTable)
  /\ lastOp = "DestroyDrm" =>
       /\ ~crashed
       /\ ret = "none"
       /\ SelectionsCleared
       /\ AllClosed(fdTable)
       /\ Len(reqs) >= 2
       /\ reqs[Len(reqs)].op = "close"
       /\ reqs[Len(reqs)].arg = m_fd
       /\ reqs[Len(reqs) - 1].op = "close"
       /\ reqs[Len(reqs) - 1].arg = m_renderFd

\* C15 witness: InitDrm had failed at FindPreferredMode; teardown then had
\* its mode restore refused, closed the device descriptor and cleared the
\* selections
C15_Witness ==
  /\ lastOp = "DestroyDrm"
  /\ step = "FindPreferredMode"
  /\ Refused("SetCrtc")
  /\ reqs[Len(reqs)] = Req("close", m_fd, TRUE)
  /\ AllClosed(fdTable)
  /\ SelectionsCleared

(* ====================================================================== *)
(*                   Properties of GetResolutionInfo                      *)
(* ====================================================================== *)
\* the raw mode GetCurrentMode was called on, and its size
RawMode == Modes[m_mode]
Native == << RawMode.hdisplay, RawMode.vdisplay >>
\* the GUI size returned
GuiSizeReturned == << retRes.iWidth, retRes.iHeight >>

\* the size the four tiers of the limit name
TierSize(limit) ==
  CASE limit = 1 -> << 1280, 720 >>
    [] limit = 2 -> IF RawMode.vrefresh > 30 THEN << 1280, 720 >> ELSE << 1920, 1080 >>
    [] limit = 3 -> << 1920, 1080 >>
    [] limit = 4 -> IF RawMode.vrefresh > 30 THEN << 1920, 1080 >> ELSE Native

\* the native size fits in 1920x1080
Within1080p == RawMode.hdisplay <= 1920 /\ RawMode.vdisplay <= 1080
\* the native size is larger than 1920x1080 in both directions
Beyond1080pBothWays == RawMode.hdisplay > 1920 /\ RawMode.vdisplay > 1080

\* C16 as stated: the screen size is the raw mode's; the GUI size is the
\* screen size when the limit is 0 or the native resolution does not exceed
\* 1920x1080, and otherwise the size of the tier.
C16_GuiSizePolicyAsStated ==
  lastOp = "GetCurrentMode" =>
    /\ << retRes.iScreenWidth, retRes.iScreenHeight >> = Native
    /\ GuiSizeReturned = IF lastArg = 0 \/ Within1080p THEN Native ELSE TierSize(lastArg)

\* C16, amended: the screen size is the raw mode's; the GUI size is the size
\* of the tier when the limit is not 0 and the native width exceeds 1920 and
\* the native height exceeds 1080, and the screen size otherwise.
C16_GuiSizePolicy ==
  lastOp = "GetCurrentMode" =>
    /\ << retRes.iScreenWidth, retRes.iScreenHeight >> = Native
    /\ GuiSizeReturned = IF lastArg # 0 /\ Beyond1080pBothWays THEN TierSize(lastArg)
                         ELSE Native

\* C16 witness: tier 2 on 3840x2160 at 30 Hz has given 1920x1080
C16_Witness ==
  /\ lastOp = "GetCurrentMode"
  /\ lastArg = 2
  /\ Native = << 3840, 2160 >>
  /\ RawMode.vrefresh = 30
  /\ GuiSizeReturned = << 1920, 1080 >>

\* the 3D layout number and the interlace bit of the raw mode's flags
Layout == (RawMode.flags \div 2 ^ 14) % 32
Interlace == Bit(RawMode.flags, 4)

\* C17: GetResolutionInfo marks the output top-and-bottom 3D when the raw
\* mode's 3D layout is top-and-bottom, else side-by-side 3D when it is
\* side-by-side-half, else interlaced when the interlace flag is set, else
\* progressive; exactly one of the four, and 3D never with interlaced.
C17_FlagPriority ==
  lastOp = "GetCurrentMode" =>
    retRes.dwFlags = IF Layout = 7 THEN {"MODE3DTB"}
                     ELSE IF Layout = 8 THEN {"MODE3DSBS"}
                     ELSE IF Interlace THEN {"INTERLACED"}
                     ELSE {"PROGRESSIVE"}

(* ====================================================================== *)
(*                 Properties of OpenDrm's descriptors                    *)
(* ====================================================================== *)
\* the device descriptors held after the first k requests of OpenDrm
CardsHeld(k) ==
  Cardinality({j \in 1..k : reqs[j].op = "open" /\ reqs[j].ok})
    - Cardinality({j \in 1..k : reqs[j].op = "close" /\ reqs[j].ok})

\* the descriptors of the kind open in the table
OpenFds(kind) == {fd \in Fds : fdTable[fd].open /\ fdTable[fd].kind = kind}

\* the devices, their render nodes all answering r
WithRender(r) == [d \in DOMAIN devices |-> [devices[d] EXCEPT !.render = r]]

\* what OpenDrm returns here does not depend on what the render nodes answer
RenderIrrelevant ==
  \A needConnector \in BOOLEAN, r \in {"none", "fail", "ok"} :
    OpenLoop([fdTable |-> fdTable, reqs |-> << >>, m_fd |-> m_fd,
              m_renderFd |-> m_renderFd],
             WithRender(r), Candidates(devices, 1, 0), 1, needConnector).ret
      = OpenDrmResult(needConnector, TRUE).ret

\* C18: OpenDrm holds at most one device descriptor at any time: every
\* open of a device node directly follows a close of the descriptor held;
\* when it returns true exactly one device descriptor, the one m_fd names,
\* and at most one render descriptor are open; a render node that cannot be
\* opened never makes it return false.
C18_OneDeviceDescriptor ==
  /\ lastOp = "OpenDrm" =>
       /\ \A k \in 1..Len(reqs) :
            /\ CardsHeld(k) <= 1
            /\ reqs[k].op = "open" => (k > 1 /\ reqs[k - 1].op = "close")
       /\ Cardinality(OpenFds("card")) <= 1
       /\ ret = "true" =>
            /\ OpenFds("card") = {m_fd}
            /\ Cardinality(OpenFds("render")) <= 1
            /\ Refused("open_render") => OpenFds("render") = {}
  /\ (~crashed /\ lastOp = "none") => RenderIrrelevant

\* C18 witness: OpenDrm skipped a device it had opened, closed it, and
\* returned true on the next although the render node could not be opened
C18_Witness ==
  /\ lastOp = "OpenDrm"
  /\ ret = "true"
  /\ \E k \in 1..Len(reqs) : reqs[k].op = "close" /\ reqs[k].ok
  /\ Refused("open_render")
  /\ OpenFds("card") = {m_fd}

(* ====================================================================== *)
(*             Properties of FindPlanes' tentative commitment             *)
(* ====================================================================== *)
\* the video-plane candidate of the CRTC of index i: its position in
\* m_planes, Len(m_planes) + 1 when there is none
VideoCandidate(i) ==
  FindIf({k \in 1..Len(m_planes) : IsVideoPlane(m_planes[k], i)}, Len(m_planes))
\* the identity the GUI-plane search of the CRTC of index i must avoid
VideoCandidateId(i) ==
  IF VideoCandidate(i) <= Len(m_planes) THEN m_planes[VideoCandidate(i)].id ELSE 0
\* the GUI-plane candidate of the CRTC of index i, likewise
GuiCandidate(i) ==
  FindIf({k \in 1..Len(m_planes) : IsGuiPlane(m_planes[k], i, VideoCandidateId(i))},
         Len(m_planes))
\* the CRTC of index i has both candidates
HasBothCandidates(i) ==
  VideoCandidate(i) <= Len(m_planes) /\ GuiCandidate(i) <= Len(m_planes)
\* the indexes of the CRTCs rule 4 applies to: a GUI-plane candidate, and
\* the identity the encoder is bound to
Rule4Crtcs ==
  {i \in 0..(Len(m_crtcs) - 1) :
     GuiCandidate(i) <= Len(m_planes) /\ m_crtcs[i + 1].id = Encoder.crtc_id}

\* C19: when no CRTC has both a video-plane and a GUI-plane candidate,
\* FindPlanes commits the lowest-indexed CRTC that has a GUI-plane candidate
\* and whose identity is the one the encoder is bound to, with that GUI
\* plane and no video plane.
C19_TentativeCommitment ==
  (/\ FindPlanesRan
   /\ \A i \in 0..(Len(m_crtcs) - 1) : ~HasBothCandidates(i)
   /\ Rule4Crtcs # {})
    => /\ m_crtc = Earliest(Rule4Crtcs) + 1
       /\ m_gui_plane = GuiCandidate(Earliest(Rule4Crtcs))
       /\ m_video_plane = Null

(* ====================================================================== *)
(*                 Properties of the buffer's user data                   *)
(* ====================================================================== *)
\* C20: after any sequence of DrmFbGetFromBo calls, the descriptor attached
\* to a buffer as user data is either absent or a live descriptor whose
\* framebuffer id is registered with the driver, so that a later call never
\* reads a released descriptor.
C20_UserDataLive ==
  \A bo \in BOs :
    (boAlive[bo] /\ userData[bo] # Null)
      => /\ heap[userData[bo]].live
         /\ heap[userData[bo]].fb_id \in registered

(* ====================================================================== *)
(*                    Properties of repeated teardown                     *)
(* ====================================================================== *)
\* the descriptor is one the session had opened and has closed since
ClosedBefore(fd) == fd \in Fds /\ ~fdTable[fd].open

\* the requests rs that go to the driver through m_fd
DriverReqs(rs) ==
  {k \in 1..Len(rs) : rs[k].op \in {"SetCrtc", "AuthMagic", "DropMaster"}}

\* C21: DestroyDrm can run more than once (explicitly, then from the
\* destructor): no call closes a descriptor that was closed before, so each
\* of the device and render descriptors is closed at most once, and no call
\* issues a driver request (mode restore, authorize, drop master) on a
\* descriptor that was closed before.
C21_TeardownTwiceSafe ==
  [][ Called("DestroyDrm", Null) =>
        /\ \A k \in 1..Len(reqs') :
             reqs'[k].op = "close" => ~ClosedBefore(reqs'[k].arg)
        /\ ClosedBefore(m_fd) => DriverReqs(reqs') = {} ]_vars

====
